---- MODULE Spec2Model ----
(***************************************************************************)
(* geo-loc: the CoreLocation callback-to-result bridge                     *)
(* (src/providers/corelocation.rs), the process-wide delegate class        *)
(* registration (delegate_class) and the GeoClue-then-IP orchestrator      *)
(* (src/main.rs).                                                          *)
(*                                                                         *)
(* Three specifications share the module:                                  *)
(*   Spec       one get_current_location request racing the native         *)
(*              callback context (update / fail) and the deadline timer;   *)
(*   ClassSpec  several threads calling delegate_class concurrently;       *)
(*   OrchSpec   one run of main.rs get_location (OrchLiveSpec adds         *)
(*              weak fairness of the scheduler's steps).                   *)
(***************************************************************************)
EXTENDS Integers, Sequences, FiniteSets, TLC

VARIABLES
    \* ---- get_current_location (the awaiting caller) ----
    pc,             \* position of the caller inside get_current_location
    timeout,        \* the coerced `timeout` local (seconds), 0 before the call
    elapsed,        \* seconds run off the tokio timer since the wait began
    servicesEnabled,\* what +[CLLocationManager locationServicesEnabled] answers
    authStatus,     \* what +[CLLocationManager authorizationStatus] answers
    timeoutArg,     \* the `timeout` argument the caller passed (seconds)
    manager,        \* the CLLocationManager object: none / alive / released
    delegate,       \* the GeoLocCLDelegate object: none / alive / released
    delegateSet,    \* manager.delegate has been set
    authRequested,  \* requestWhenInUseAuthorization sent
    streaming,      \* the update stream is running
    starts,         \* number of startUpdatingLocation sent
    ivar,           \* the delegate's "state" ivar: null / ptr
    storage,        \* the boxed DelegateState: none / live / freed
    slot,           \* DelegateState.tx: "Some" / "None"
    chan,           \* the oneshot channel: empty / value / closed
    chanVal,        \* the value sitting in the channel
    rxAlive,        \* the receiver has not been dropped
    waitResult,     \* what tokio::time::timeout(..).await resolved to
    outcome,        \* what get_current_location returned
    callerStops,    \* stopUpdatingLocation sent by get_current_location
    \* ---- the native callback context ----
    cbPc,           \* idle / entered / stop
    cbKind,         \* update / fail
    cbState,        \* what take_state returned: null / ptr
    callbacks,      \* callbacks the native subsystem has invoked
    writes,         \* values handed to oneshot::Sender::send
    delivered,      \* results the caller took out of the channel
    callbackStops,  \* stopUpdatingLocation sent by update / fail
    stopLog,        \* who sent each stopUpdatingLocation, in order
    useAfterFree,   \* a callback dereferenced the freed DelegateState
    staleWrites,    \* sends through the freed DelegateState that found a sender
    sendLog,        \* every DelegateState::send on live storage, in order
    emptyUpdates,   \* update callbacks that found an empty `locations` array
    \* ---- delegate_class ----
    onceState,      \* the OnceLock: incomplete / running / complete
    CLASS,          \* the stored &'static Class (0 = unset)
    declared,       \* ClassDecl::new("GeoLocCLDelegate") that succeeded
    registrations,  \* decl.register() calls
    tpc,            \* per thread: position inside delegate_class
    tret,           \* per thread: the identities its calls returned
    \* ---- main.rs ----
    opc,            \* position inside get_location / try_geoclue / try_ip_location
    requested,      \* Args.provider of the invocation
    polls,          \* iterations of the location polling loop done
    pollClock,      \* half-seconds run off the 5 second poll timeout
    locationPath,   \* the object path the polling loop returned
    latitude,       \* the latitude read from the location object
    longitude,      \* the longitude read from the location object
    clientStarted,  \* client.start() succeeded
    clientStops,    \* client.stop() calls
    firstResult,    \* what try_geoclue returned
    ipCalls,        \* calls of try_ip_location
    roundTrips,     \* HTTP GETs sent
    httpReply,      \* how the GET ended: ok / error / timeout
    httpBody,       \* the response body, once read
    ipResult,       \* what try_ip_location returned
    finalResult,    \* what get_location returned
    exitStatus,     \* the status the process ended with ("running" before)
    log             \* the order of the orchestrator's observable steps

bvars == << pc, timeout, elapsed, servicesEnabled, authStatus, timeoutArg, manager, delegate,
            delegateSet, authRequested, streaming, starts, ivar, storage, slot,
            chan, chanVal, rxAlive, waitResult, outcome, callerStops >>
kvars == << cbPc, cbKind, cbState, callbacks, writes, delivered, callbackStops,
            stopLog, useAfterFree, staleWrites, sendLog, emptyUpdates >>
cvars == << onceState, CLASS, declared, registrations, tpc, tret >>
gvars == << polls, pollClock, locationPath, latitude, longitude, clientStarted, clientStops,
            firstResult >>
hvars == << ipCalls, roundTrips, httpReply, httpBody, ipResult >>
ovars == << opc, requested, gvars, hvars, finalResult, exitStatus, log >>
vars == << bvars, kvars, cvars, ovars >>

----------------------------------------------------------------------------
(* Bounds *)
MaxTimeout == 2         \* largest `timeout` argument tried (seconds)
MaxCallbacks == 2       \* callbacks the native subsystem invokes per request
MaxLocations == 2       \* longest `locations` array handed to update

(* Program constants *)
DefaultTimeoutSecs == 5 \* Duration::from_secs(5)
StatusRestricted == 1   \* kCLAuthorizationStatusRestricted
StatusDenied == 2       \* kCLAuthorizationStatusDenied
MaxAuthStatus == 4      \* kCLAuthorizationStatusAuthorizedWhenInUse

----------------------------------------------------------------------------
(* f64 values, as far as the code looks at them: the sign bit, NaN, and the *)
(* magnitude in hundredths.                                                *)
F64(neg, nan, mag) == [neg |-> neg, nan |-> nan, mag |-> mag]
Accuracies == { F64(TRUE, FALSE, 100),    \* -1.0
                F64(TRUE, FALSE, 0),      \* -0.0
                F64(FALSE, FALSE, 0),     \* +0.0
                F64(FALSE, FALSE, 1234),  \* 12.34
                F64(FALSE, TRUE, 0) }     \* NaN
Latitudes == {37}
Longitude == -122

\* f64::is_sign_positive: the sign bit is clear
is_sign_positive(x) == ~x.neg
\* x >= 0.0
NonNegative(x) == ~x.nan /\ (~x.neg \/ x.mag = 0)
\* x < 0.0
Negative(x) == ~x.nan /\ x.neg /\ x.mag > 0

Fix == [latitude : Latitudes, longitude : {Longitude}, accuracy : Accuracies]

\* the NSArray handed to locationManager:didUpdateLocations:
LocationLists == UNION { [1..n -> Fix] : n \in 0..MaxLocations }

Reasons == {"unknown", "kCLErrorDomain error 0"}

NoValue == [kind |-> "none"]
OkFix(fix) == [kind |-> "fix", fix |-> fix]
ErrFailed(reason) == [kind |-> "Failed", reason |-> reason]
ErrAuthorizationDenied == [kind |-> "AuthorizationDenied"]
ErrTimeout == [kind |-> "Timeout"]

\* CoreLocationError has exactly these variants
CoreLocationError == {"AuthorizationDenied", "Timeout", "Failed"}

\* Location::new(lat, lon, acc, provider, timestamp)
Location(lat, lon, acc, provider) ==
    [kind |-> "Ok", latitude |-> lat, longitude |-> lon, accuracy_m |-> acc,
     provider |-> provider]
None == [some |-> FALSE]
Some(v) == [some |-> TRUE, value |-> v]

----------------------------------------------------------------------------
(* get_current_location, lines 150-242 *)

\* a coercion that also treats one second as too short
CoerceTimeoutBelowTwo(t) == IF t <= 1 THEN DefaultTimeoutSecs ELSE t

\* lines 154-158: a zero timeout becomes the 5 second default
CoerceTimeout(t) == IF t = 0 THEN DefaultTimeoutSecs ELSE t

\* a gate that forgets the restricted status
RefusedOnlyDenied(status) == status = StatusDenied

\* line 175: status == 2 || status == 1
AuthorizationRefused(status) == status = StatusDenied \/ status = StatusRestricted

\* lines 219-223
NormalizeAccuracy(acc) == IF is_sign_positive(acc) THEN Some(acc) ELSE None

\* the error of the early return when location services are off (lines 168-172)
ServicesDisabledError == ErrFailed("Location services disabled")

\* an early `return Err(..)` before the wait: tx and rx are dropped unused
EarlyReturn(err) ==
    /\ outcome' = err
    /\ pc' = "done"
    /\ rxAlive' = FALSE
    /\ chan' = "closed"

\* lines 154-160: coerce the timeout, create the oneshot channel
Call ==
    /\ pc = "idle"
    /\ \E t \in 0..MaxTimeout :
         /\ timeoutArg' = t
         /\ timeout' = CoerceTimeout(t)
    /\ chan' = "empty"
    /\ rxAlive' = TRUE
    /\ pc' = "check_services"
    /\ UNCHANGED << elapsed, servicesEnabled, authStatus, manager, delegate,
                    delegateSet, authRequested, streaming, starts, ivar, storage,
                    slot, chanVal, waitResult, outcome, callerStops >>
    /\ UNCHANGED << kvars, cvars, ovars >>

\* lines 167-172
CheckServices ==
    /\ pc = "check_services"
    /\ IF ~servicesEnabled
         THEN EarlyReturn(ServicesDisabledError)
         ELSE /\ pc' = "check_auth"
              /\ UNCHANGED << outcome, rxAlive, chan >>
    /\ UNCHANGED << timeout, elapsed, servicesEnabled, authStatus, timeoutArg, manager, delegate,
                    delegateSet, authRequested, streaming, starts, ivar, storage,
                    slot, chanVal, waitResult, callerStops >>
    /\ UNCHANGED << kvars, cvars, ovars >>

\* lines 174-177
CheckAuthorization ==
    /\ pc = "check_auth"
    /\ IF AuthorizationRefused(authStatus)
         THEN EarlyReturn(ErrAuthorizationDenied)
         ELSE /\ pc' = "alloc_manager"
              /\ UNCHANGED << outcome, rxAlive, chan >>
    /\ UNCHANGED << timeout, elapsed, servicesEnabled, authStatus, timeoutArg, manager, delegate,
                    delegateSet, authRequested, streaming, starts, ivar, storage,
                    slot, chanVal, waitResult, callerStops >>
    /\ UNCHANGED << kvars, cvars, ovars >>

\* lines 179-185: [[CLLocationManager alloc] init], which may answer nil
AllocManager ==
    /\ pc = "alloc_manager"
    /\ \E ok \in BOOLEAN :
         IF ok
           THEN /\ manager' = "alive"
                /\ pc' = "alloc_delegate"
                /\ UNCHANGED << outcome, rxAlive, chan >>
           ELSE /\ EarlyReturn(ErrFailed("Failed to create CLLocationManager"))
                /\ UNCHANGED manager
    /\ UNCHANGED << timeout, elapsed, servicesEnabled, authStatus, timeoutArg, delegate,
                    delegateSet, authRequested, streaming, starts, ivar, storage,
                    slot, chanVal, waitResult, callerStops >>
    /\ UNCHANGED << kvars, cvars, ovars >>

\* a once-cell that lets in every caller that has not seen it complete
OnceMayRunUnlessComplete(st) == st # "complete"

\* OnceLock::get_or_init (line 70): only a caller that finds the cell
\* incomplete may run the initializer
OnceMayRun(st) == st = "incomplete"

\* delegate_class() called from one thread, start to end (lines 68-86)
DelegateClassCall ==
    IF OnceMayRun(onceState)
      THEN /\ declared' = declared + 1
           /\ registrations' = registrations + 1
           /\ CLASS' = registrations + 1
           /\ onceState' = "complete"
      ELSE UNCHANGED << declared, registrations, CLASS, onceState >>

\* lines 186-193: delegate_class(), then [[GeoLocCLDelegate alloc] init], which
\* may answer nil; the manager pointer is still raw, so it is not released
AllocDelegate ==
    /\ pc = "alloc_delegate"
    /\ DelegateClassCall
    /\ \E ok \in BOOLEAN :
         IF ok
           THEN /\ delegate' = "alive"
                /\ pc' = "install"
                /\ UNCHANGED << outcome, rxAlive, chan >>
           ELSE /\ EarlyReturn(ErrFailed("Failed to allocate delegate"))
                /\ UNCHANGED delegate
    /\ UNCHANGED << timeout, elapsed, servicesEnabled, authStatus, timeoutArg, manager,
                    delegateSet, authRequested, streaming, starts, ivar, storage,
                    slot, chanVal, waitResult, callerStops >>
    /\ UNCHANGED << kvars, tpc, tret, ovars >>

\* an installation that does not keep the delegate: its Id is dropped at
\* once, dealloc frees the DelegateState and the sender in it
StartUpdatesDroppingDelegate ==
    /\ pc = "install"
    /\ storage' = "freed"
    /\ slot' = "Some"
    /\ ivar' = "null"
    /\ delegate' = "released"
    /\ chan' = "closed"
    /\ delegateSet' = TRUE
    /\ authRequested' = TRUE
    /\ streaming' = TRUE
    /\ starts' = starts + 1
    /\ elapsed' = 0
    /\ pc' = "waiting"
    /\ UNCHANGED << timeout, servicesEnabled, authStatus, timeoutArg, manager,
                    chanVal, rxAlive, waitResult, outcome, callerStops >>
    /\ UNCHANGED << kvars, cvars, ovars >>

\* lines 195-203: box the sender into the delegate's ivar, setDelegate,
\* requestWhenInUseAuthorization, startUpdatingLocation; the wait begins
StartUpdates ==
    /\ pc = "install"
    /\ storage' = "live"
    /\ slot' = "Some"
    /\ ivar' = "ptr"
    /\ delegateSet' = TRUE
    /\ authRequested' = TRUE
    /\ streaming' = TRUE
    /\ starts' = starts + 1
    /\ elapsed' = 0
    /\ pc' = "waiting"
    /\ UNCHANGED << timeout, servicesEnabled, authStatus, timeoutArg, manager, delegate, chan,
                    chanVal, rxAlive, waitResult, outcome, callerStops >>
    /\ UNCHANGED << kvars, cvars, ovars >>

\* the tokio timer of tokio::time::timeout(timeout, rx) runs (line 205)
Tick ==
    /\ pc = "waiting"
    /\ elapsed < timeout
    /\ elapsed' = elapsed + 1
    /\ UNCHANGED << pc, timeout, servicesEnabled, authStatus, timeoutArg, manager, delegate,
                    delegateSet, authRequested, streaming, starts, ivar, storage,
                    slot, chan, chanVal, rxAlive, waitResult, outcome, callerStops >>
    /\ UNCHANGED << kvars, cvars, ovars >>

\* a poll that looks at the deadline before the receiver
PollResultDeadlineFirst(ch, val, el, to) ==
    IF el >= to THEN [kind |-> "elapsed"]
    ELSE IF ch = "value" THEN val
    ELSE IF ch = "closed" THEN [kind |-> "canceled"]
    ELSE [kind |-> "pending"]

\* what one poll of Timeout<Receiver> yields: the receiver is polled first,
\* the deadline second; "pending" when neither is ready
PollResult(ch, val, el, to) ==
    IF ch = "value" THEN val
    ELSE IF ch = "closed" THEN [kind |-> "canceled"]
    ELSE IF el >= to THEN [kind |-> "elapsed"]
    ELSE [kind |-> "pending"]

\* line 205: the await resolves; the Timeout future, and the receiver in it,
\* is dropped at the end of the statement
Poll ==
    /\ pc = "waiting"
    /\ PollResult(chan, chanVal, elapsed, timeout).kind # "pending"
    /\ waitResult' = PollResult(chan, chanVal, elapsed, timeout)
    /\ delivered' = IF chan = "value" THEN delivered + 1 ELSE delivered
    /\ chan' = IF chan = "value" THEN "taken" ELSE chan
    /\ rxAlive' = FALSE
    /\ pc' = "resolved"
    /\ UNCHANGED << timeout, elapsed, servicesEnabled, authStatus, timeoutArg, manager, delegate,
                    delegateSet, authRequested, streaming, starts, ivar, storage,
                    slot, chanVal, outcome, callerStops >>
    /\ UNCHANGED << cbPc, cbKind, cbState, callbacks, writes, callbackStops,
                    stopLog, useAfterFree, staleWrites, sendLog, emptyUpdates >>
    /\ UNCHANGED << cvars, ovars >>

\* the value of the match at lines 206-240
MatchResult(r) ==
    CASE r.kind = "fix" ->
           Location(r.fix.latitude, r.fix.longitude,
                    NormalizeAccuracy(r.fix.accuracy), "corelocation")
      [] r.kind = "Failed" -> r
      [] r.kind = "canceled" -> ErrFailed("CoreLocation channel closed")
      [] r.kind = "elapsed" -> ErrTimeout

\* a timeout arm that forgets the stop
ArmNeverStops(r) == FALSE

\* whether the matched arm sends stopUpdatingLocation (line 237)
ArmStops(r) == r.kind = "elapsed"

\* lines 206-240: the match arms; the timeout arm stops the stream first
HandleResult ==
    /\ pc = "resolved"
    /\ outcome' = MatchResult(waitResult)
    /\ IF ArmStops(waitResult)
         THEN /\ callerStops' = callerStops + 1
              /\ stopLog' = Append(stopLog, "caller")
              /\ streaming' = FALSE
         ELSE UNCHANGED << callerStops, stopLog, streaming >>
    /\ pc' = "returning"
    /\ UNCHANGED << timeout, elapsed, servicesEnabled, authStatus, timeoutArg, manager, delegate,
                    delegateSet, authRequested, starts, ivar, storage, slot, chan,
                    chanVal, rxAlive, waitResult >>
    /\ UNCHANGED << cbPc, cbKind, cbState, callbacks, writes, delivered,
                    callbackStops, useAfterFree, staleWrites, sendLog, emptyUpdates >>
    /\ UNCHANGED << cvars, ovars >>

\* dealloc (lines 140-148), run when the last reference to the delegate goes:
\* the boxed DelegateState is dropped, and its sender with it
DeallocStorage(st) == IF st = "live" THEN "freed" ELSE st
DeallocChan(ch, sl) == IF ch = "empty" /\ sl = "Some" THEN "closed" ELSE ch

\* line 241: the function returns; `delegate` and `manager` are dropped
Return ==
    /\ pc = "returning"
    /\ delegate' = "released"
    /\ storage' = IF ivar = "ptr" THEN DeallocStorage(storage) ELSE storage
    /\ chan' = IF ivar = "ptr" THEN DeallocChan(chan, slot) ELSE chan
    /\ ivar' = "null"
    /\ manager' = "released"
    /\ streaming' = FALSE
    /\ pc' = "done"
    /\ UNCHANGED << timeout, elapsed, servicesEnabled, authStatus, timeoutArg, delegateSet,
                    authRequested, starts, slot, chanVal, rxAlive, waitResult,
                    outcome, callerStops >>
    /\ UNCHANGED << kvars, cvars, ovars >>

----------------------------------------------------------------------------
(* The native callback context: update (lines 97-124), fail (lines 126-138) *)

\* take_state (lines 88-95): the ivar read, with no ownership taken
take_state(iv) == IF iv = "null" THEN "null" ELSE "ptr"

\* the native subsystem may call the delegate once it is registered with a
\* live manager whose update stream was started
MayInvoke ==
    /\ cbPc = "idle"
    /\ callbacks < MaxCallbacks
    /\ manager = "alive"
    /\ delegate = "alive"
    /\ delegateSet
    /\ starts > 0

\* lines 97-103: locationManager:didUpdateLocations: is entered
UpdateEnter ==
    /\ MayInvoke
    /\ cbKind' = "update"
    /\ cbState' = take_state(ivar)
    /\ callbacks' = callbacks + 1
    /\ cbPc' = "entered"
    /\ UNCHANGED << writes, delivered, callbackStops, stopLog, useAfterFree,
                    staleWrites, sendLog, emptyUpdates >>
    /\ UNCHANGED << bvars, cvars, ovars >>

\* lines 126-127: locationManager:didFailWithError: is entered
FailEnter ==
    /\ MayInvoke
    /\ cbKind' = "fail"
    /\ cbState' = take_state(ivar)
    /\ callbacks' = callbacks + 1
    /\ cbPc' = "entered"
    /\ UNCHANGED << writes, delivered, callbackStops, stopLog, useAfterFree,
                    staleWrites, sendLog, emptyUpdates >>
    /\ UNCHANGED << bvars, cvars, ovars >>

\* a take that hands out a sender whatever the slot holds
TakeYieldsAlways(sl) == sl \in {"Some", "None"}

\* Option::take under the mutex (line 56): whether a sender comes out
TakeYields(sl) == sl = "Some"

\* what the model remembers of one send: who sent what, whether the take
\* found the sender, and where the caller and its timer then stood
SendRecord(value) ==
    [kind |-> cbKind, value |-> value, took |-> slot = "Some",
     waiting |-> pc = "waiting", late |-> elapsed >= timeout]

\* DelegateState::send (lines 55-59) on the DelegateState the callback holds.
\* On freed storage the read is of released memory: it may find either.
send(value) ==
    IF storage = "live"
      THEN /\ sendLog' = Append(sendLog, SendRecord(value))
           /\ IF TakeYields(slot)
                THEN /\ slot' = "None"
                     /\ writes' = writes + 1
                     /\ IF rxAlive
                          THEN chan' = "value" /\ chanVal' = value
                          ELSE UNCHANGED << chan, chanVal >>
                ELSE UNCHANGED << slot, writes, chan, chanVal >>
           /\ UNCHANGED << useAfterFree, staleWrites >>
      ELSE /\ useAfterFree' = TRUE
           /\ \E found \in BOOLEAN :
                staleWrites' = IF found THEN staleWrites + 1 ELSE staleWrites
           /\ UNCHANGED << slot, writes, chan, chanVal, sendLog >>

\* an update that only handles an array holding a single location
UpdateWritesSingleton(locations) == Len(locations) = 1

\* what update does with its `locations` argument (lines 104-121)
UpdateWrites(locations) == Len(locations) # 0

\* lines 103-122: update reads the array and sends the last fix; an empty
\* array returns at once, before the stop at line 123
UpdateSend ==
    /\ cbPc = "entered"
    /\ cbKind = "update"
    /\ IF cbState = "null"
         THEN /\ cbPc' = "stop"
              /\ UNCHANGED << slot, writes, chan, chanVal, useAfterFree, staleWrites,
                              sendLog, emptyUpdates >>
         ELSE \E locations \in LocationLists :
                IF UpdateWrites(locations)
                  THEN /\ send(OkFix(locations[Len(locations)]))
                       /\ cbPc' = "stop"
                       /\ UNCHANGED emptyUpdates
                  ELSE /\ cbPc' = "idle"
                       /\ emptyUpdates' = IF Len(locations) = 0 THEN emptyUpdates + 1
                                                                ELSE emptyUpdates
                       /\ UNCHANGED << slot, writes, chan, chanVal, useAfterFree,
                                       staleWrites, sendLog >>
    /\ UNCHANGED << pc, timeout, elapsed, servicesEnabled, authStatus, timeoutArg, manager,
                    delegate, delegateSet, authRequested, streaming, starts, ivar,
                    storage, rxAlive, waitResult, outcome, callerStops >>
    /\ UNCHANGED << cbKind, cbState, callbacks, delivered, callbackStops, stopLog >>
    /\ UNCHANGED << cvars, ovars >>

\* lines 127-136: fail sends the error's description, "unknown" without one
FailSend ==
    /\ cbPc = "entered"
    /\ cbKind = "fail"
    /\ IF cbState = "null"
         THEN UNCHANGED << slot, writes, chan, chanVal, useAfterFree, staleWrites, sendLog >>
         ELSE \E reason \in Reasons : send(ErrFailed(reason))
    /\ cbPc' = "stop"
    /\ UNCHANGED emptyUpdates
    /\ UNCHANGED << pc, timeout, elapsed, servicesEnabled, authStatus, timeoutArg, manager,
                    delegate, delegateSet, authRequested, streaming, starts, ivar,
                    storage, rxAlive, waitResult, outcome, callerStops >>
    /\ UNCHANGED << cbKind, cbState, callbacks, delivered, callbackStops, stopLog >>
    /\ UNCHANGED << cvars, ovars >>

\* lines 123 and 137: [manager stopUpdatingLocation] from the callback, sent
\* to the pointer it was handed, whether or not the manager still lives
CallbackStop ==
    /\ cbPc = "stop"
    /\ callbackStops' = callbackStops + 1
    /\ stopLog' = Append(stopLog, IF manager = "alive" THEN "callback"
                                                       ELSE "callback_after_release")
    /\ streaming' = FALSE
    /\ cbPc' = "idle"
    /\ UNCHANGED << pc, timeout, elapsed, servicesEnabled, authStatus, timeoutArg, manager,
                    delegate, delegateSet, authRequested, starts, ivar, storage,
                    slot, chan, chanVal, rxAlive, waitResult, outcome, callerStops >>
    /\ UNCHANGED << cbKind, cbState, callbacks, writes, delivered, useAfterFree,
                    staleWrites, sendLog, emptyUpdates >>
    /\ UNCHANGED << cvars, ovars >>

----------------------------------------------------------------------------
(* The state after construction, shared by the specifications *)
BridgeIdle ==
    /\ pc = "idle"
    /\ timeout = 0
    /\ timeoutArg = 0
    /\ elapsed = 0
    /\ manager = "none"
    /\ delegate = "none"
    /\ delegateSet = FALSE
    /\ authRequested = FALSE
    /\ streaming = FALSE
    /\ starts = 0
    /\ ivar = "null"
    /\ storage = "none"
    /\ slot = "unset"
    /\ chan = "none"
    /\ chanVal = NoValue
    /\ rxAlive = FALSE
    /\ waitResult = NoValue
    /\ outcome = NoValue
    /\ callerStops = 0
    /\ cbPc = "idle"
    /\ cbKind = "none"
    /\ cbState = "null"
    /\ callbacks = 0
    /\ writes = 0
    /\ delivered = 0
    /\ callbackStops = 0
    /\ stopLog = << >>
    /\ useAfterFree = FALSE
    /\ staleWrites = 0
    /\ sendLog = << >>
    /\ emptyUpdates = 0

NThreads == 3           \* threads calling delegate_class
CallsPerThread == 2     \* calls each thread makes
Threads == 1..NThreads

ClassIdle ==
    /\ onceState = "incomplete"
    /\ CLASS = 0
    /\ declared = 0
    /\ registrations = 0
    /\ tpc = [t \in Threads |-> "idle"]
    /\ tret = [t \in Threads |-> << >>]

OrchIdle ==
    /\ opc = "idle"
    /\ polls = 0
    /\ pollClock = 0
    /\ locationPath = "none"
    /\ latitude = 0
    /\ longitude = 0
    /\ clientStarted = FALSE
    /\ clientStops = 0
    /\ firstResult = NoValue
    /\ ipCalls = 0
    /\ roundTrips = 0
    /\ httpReply = "none"
    /\ httpBody = NoValue
    /\ ipResult = NoValue
    /\ finalResult = NoValue
    /\ exitStatus = "running"
    /\ log = << >>

Provider == {"Auto", "Corelocation", "Geoclue", "Ip"}

\* one request: the platform's answers are the environment's
Init ==
    /\ BridgeIdle
    /\ servicesEnabled \in BOOLEAN
    /\ authStatus \in 0..MaxAuthStatus
    /\ ClassIdle
    /\ OrchIdle
    /\ requested = "Auto"

Next ==
    \/ Call
    \/ CheckServices
    \/ CheckAuthorization
    \/ AllocManager
    \/ AllocDelegate
    \/ StartUpdates
    \/ Tick
    \/ Poll
    \/ HandleResult
    \/ Return
    \/ UpdateEnter
    \/ UpdateSend
    \/ FailEnter
    \/ FailSend
    \/ CallbackStop

Spec == Init /\ [][Next]_vars

----------------------------------------------------------------------------
(* delegate_class (lines 68-86) called from several threads at once *)

\* line 70, fast path: an initialized cell is returned at once
ClassGet(t) ==
    /\ tpc[t] = "idle"
    /\ Len(tret[t]) < CallsPerThread
    /\ IF onceState = "complete"
         THEN /\ tret' = [tret EXCEPT ![t] = Append(@, CLASS)]
              /\ UNCHANGED tpc
         ELSE /\ tpc' = [tpc EXCEPT ![t] = "call_once"]
              /\ UNCHANGED tret
    /\ UNCHANGED << onceState, CLASS, declared, registrations >>
    /\ UNCHANGED << bvars, kvars, ovars >>

\* line 70, slow path: one caller is let in to initialize, the others wait
\* until the cell is complete
ClassCallOnce(t) ==
    /\ tpc[t] = "call_once"
    /\ \/ /\ OnceMayRun(onceState)
          /\ onceState' = "running"
          /\ tpc' = [tpc EXCEPT ![t] = "declare"]
       \/ /\ onceState = "complete"
          /\ tpc' = [tpc EXCEPT ![t] = "return"]
          /\ UNCHANGED onceState
    /\ UNCHANGED << CLASS, declared, registrations, tret >>
    /\ UNCHANGED << bvars, kvars, ovars >>

\* lines 71-83: ClassDecl::new answers None, and expect panics, when the
\* runtime already knows a class of that name
ClassDeclare(t) ==
    /\ tpc[t] = "declare"
    /\ IF registrations > 0
         THEN /\ tpc' = [tpc EXCEPT ![t] = "panicked"]
              /\ UNCHANGED declared
         ELSE /\ declared' = declared + 1
              /\ tpc' = [tpc EXCEPT ![t] = "register"]
    /\ UNCHANGED << onceState, CLASS, registrations, tret >>
    /\ UNCHANGED << bvars, kvars, ovars >>

\* lines 84-85: decl.register() makes the class; the cell stores it and
\* becomes complete
ClassRegister(t) ==
    /\ tpc[t] = "register"
    /\ registrations' = registrations + 1
    /\ CLASS' = registrations + 1
    /\ onceState' = "complete"
    /\ tpc' = [tpc EXCEPT ![t] = "return"]
    /\ UNCHANGED << declared, tret >>
    /\ UNCHANGED << bvars, kvars, ovars >>

\* line 70: get_or_init returns what the cell holds
ClassReturn(t) ==
    /\ tpc[t] = "return"
    /\ tret' = [tret EXCEPT ![t] = Append(@, CLASS)]
    /\ tpc' = [tpc EXCEPT ![t] = "idle"]
    /\ UNCHANGED << onceState, CLASS, declared, registrations >>
    /\ UNCHANGED << bvars, kvars, ovars >>

ClassInit ==
    /\ BridgeIdle
    /\ servicesEnabled = TRUE
    /\ authStatus = 0
    /\ ClassIdle
    /\ OrchIdle
    /\ requested = "Auto"

ClassNext ==
    \/ \E t \in Threads : ClassGet(t)
    \/ \E t \in Threads : ClassCallOnce(t)
    \/ \E t \in Threads : ClassDeclare(t)
    \/ \E t \in Threads : ClassRegister(t)
    \/ \E t \in Threads : ClassReturn(t)

ClassSpec == ClassInit /\ [][ClassNext]_vars

----------------------------------------------------------------------------
(* main.rs: get_location, try_geoclue, try_ip_location *)

PermissionDeniedCode == 77      \* Error::permission_denied
ServiceUnavailableCode == 70    \* Error::service_unavailable
TimeoutCode == 1                \* Error::timeout
NetworkCode == 1                \* Error::network
PollAttempts == 10              \* for _ in 0..10
PollTimeoutSecs == 5            \* Duration::from_secs(5) around the polling loop
SleepMillis == 500              \* Duration::from_millis(500)
\* the poll timeout in sleeps of 500 ms, the unit of pollClock
PollDeadline == (PollTimeoutSecs * 1000) \div SleepMillis

\* the Error constructors, lines 148-176
Error(name, code) == [kind |-> "Err", name |-> name, code |-> code]
permission_denied == Error("permission_denied", PermissionDeniedCode)
service_unavailable == Error("service_unavailable", ServiceUnavailableCode)
timeout_error == Error("timeout", TimeoutCode)
network == Error("network", NetworkCode)
OkCoords(lat, lon) == [kind |-> "Ok", lat |-> lat, lon |-> lon]

\* what a D-Bus call may answer
Replies == {"ok", "err"}
AuthReplies == {"ok", "not_authorized", "err"}
\* lines 49-54 and 77-82: NotAuthorized is permission denied, the rest unavailable
MapMethodError(reply) ==
    IF reply = "not_authorized" THEN permission_denied ELSE service_unavailable

GeoLatitudes == {52}
GeoLongitudes == {13}

\* try_geoclue returns Err(e) through `?`
GeoclueFails(e) ==
    /\ firstResult' = e
    /\ opc' = "geoclue_returned"
    /\ log' = Append(log, "geoclue_return")

\* line 22: get_location calls try_geoclue, which awaits Connection::system()
GetLocation ==
    /\ opc = "idle"
    /\ opc' = "connect"
    /\ log' = Append(log, "geoclue_call")
    /\ UNCHANGED << requested, gvars, hvars, finalResult >>
    /\ UNCHANGED << bvars, kvars, cvars, exitStatus >>

\* one un-timed D-Bus await of try_geoclue that maps every error to
\* service_unavailable: on ok the function goes on to `next`
PlainAwait(at, next) ==
    /\ opc = at
    /\ \E reply \in Replies :
         IF reply = "ok"
           THEN /\ opc' = next
                /\ UNCHANGED << firstResult, log >>
           ELSE GeoclueFails(service_unavailable)
    /\ UNCHANGED << requested, polls, pollClock, locationPath, latitude,
                    longitude, clientStarted, clientStops, hvars, finalResult >>
    /\ UNCHANGED << bvars, kvars, cvars, exitStatus >>

\* lines 39-41
Connect == PlainAwait("connect", "manager_proxy")
\* lines 44-46
NewManagerProxy == PlainAwait("manager_proxy", "get_client")

\* lines 49-54
GetClient ==
    /\ opc = "get_client"
    /\ \E reply \in AuthReplies :
         IF reply = "ok"
           THEN /\ opc' = "build_client"
                /\ UNCHANGED << firstResult, log >>
           ELSE GeoclueFails(MapMethodError(reply))
    /\ UNCHANGED << requested, polls, pollClock, locationPath, latitude,
                    longitude, clientStarted, clientStops, hvars, finalResult >>
    /\ UNCHANGED << bvars, kvars, cvars, exitStatus >>

\* lines 57-62
BuildClient == PlainAwait("build_client", "set_desktop_id")
\* lines 65-68
SetDesktopId == PlainAwait("set_desktop_id", "set_accuracy")
\* lines 71-74
SetAccuracyLevel == PlainAwait("set_accuracy", "start")

\* lines 77-85: client.start(); on success the timed polling loop begins
\* with its first client.location() read
StartClient ==
    /\ opc = "start"
    /\ \E reply \in AuthReplies :
         IF reply = "ok"
           THEN /\ clientStarted' = TRUE
                /\ opc' = "poll_reply"
                /\ UNCHANGED << firstResult, log >>
           ELSE /\ GeoclueFails(MapMethodError(reply))
                /\ UNCHANGED clientStarted
    /\ UNCHANGED << requested, polls, pollClock, locationPath, latitude, longitude,
                    clientStops, hvars, finalResult >>
    /\ UNCHANGED << bvars, kvars, cvars, exitStatus >>

\* what client.location() may answer: a location object, the root path "/"
\* GeoClue reports while it has no location, an error, or the empty path the
\* loop guards against (a well-formed object path is never empty).
LocationReplies == {"location", "root", "empty", "err"}

\* a loop that takes every Ok(path), the empty one too
PathAcceptedUnchecked(reply) == reply # "err"

\* line 88-89: Ok(path) with a non-empty path ends the loop
PathAccepted(reply) == reply \in {"location", "root"}

\* lines 88-92: the answer to client.location() arrives
PollReply ==
    /\ opc = "poll_reply"
    /\ \E reply \in LocationReplies :
         IF PathAccepted(reply)
           THEN /\ locationPath' = reply
                /\ opc' = "build_location"
           ELSE /\ opc' = "poll_sleep"
                /\ UNCHANGED locationPath
    /\ UNCHANGED << requested, polls, pollClock, latitude, longitude, clientStarted,
                    clientStops, firstResult, hvars, finalResult, log >>
    /\ UNCHANGED << bvars, kvars, cvars, exitStatus >>

\* time passes while client.location() is unanswered
PollDelay ==
    /\ opc = "poll_reply"
    /\ pollClock < PollDeadline
    /\ pollClock' = pollClock + 1
    /\ UNCHANGED << opc, requested, polls, locationPath, latitude, longitude,
                    clientStarted, clientStops, firstResult, hvars, finalResult, log >>
    /\ UNCHANGED << bvars, kvars, cvars, exitStatus >>

\* lines 93-95: the 500 ms sleep ends; after the tenth round the loop is
\* over and the block yields Err(Error::timeout())
PollSleep ==
    /\ opc = "poll_sleep"
    /\ pollClock < PollDeadline
    /\ pollClock' = pollClock + 1
    /\ polls' = polls + 1
    /\ IF polls + 1 = PollAttempts
         THEN GeoclueFails(timeout_error)
         ELSE /\ opc' = "poll_reply"
              /\ UNCHANGED << firstResult, log >>
    /\ UNCHANGED << requested, locationPath, latitude, longitude, clientStarted,
                    clientStops, hvars, finalResult >>
    /\ UNCHANGED << bvars, kvars, cvars, exitStatus >>

\* lines 85 and 98: the 5 second timeout around the loop fires
PollTimeout ==
    /\ opc \in {"poll_reply", "poll_sleep"}
    /\ pollClock >= PollDeadline
    /\ GeoclueFails(timeout_error)
    /\ UNCHANGED << requested, polls, pollClock, locationPath, latitude,
                    longitude, clientStarted, clientStops, hvars, finalResult >>
    /\ UNCHANGED << bvars, kvars, cvars, exitStatus >>

\* lines 101-106
BuildLocationProxy == PlainAwait("build_location", "latitude")

\* lines 108-111: the root path carries no Location interface to read from
ReadLatitude ==
    /\ opc = "latitude"
    /\ \E reply \in (IF locationPath = "location" THEN Replies ELSE {"err"}) :
         IF reply = "ok"
           THEN /\ \E lat \in GeoLatitudes : latitude' = lat
                /\ opc' = "longitude"
                /\ UNCHANGED << firstResult, log >>
           ELSE /\ GeoclueFails(service_unavailable)
                /\ UNCHANGED latitude
    /\ UNCHANGED << requested, polls, pollClock, locationPath, longitude,
                    clientStarted, clientStops, hvars, finalResult >>
    /\ UNCHANGED << bvars, kvars, cvars, exitStatus >>

\* lines 112-115
ReadLongitude ==
    /\ opc = "longitude"
    /\ \E reply \in Replies :
         IF reply = "ok"
           THEN /\ \E lon \in GeoLongitudes : longitude' = lon
                /\ opc' = "stop"
                /\ UNCHANGED << firstResult, log >>
           ELSE /\ GeoclueFails(service_unavailable)
                /\ UNCHANGED longitude
    /\ UNCHANGED << requested, polls, pollClock, locationPath, latitude,
                    clientStarted, clientStops, hvars, finalResult >>
    /\ UNCHANGED << bvars, kvars, cvars, exitStatus >>

\* lines 118-120: client.stop(), whose result is ignored, then Ok((lat, lon))
StopClient ==
    /\ opc = "stop"
    /\ clientStops' = clientStops + 1
    /\ firstResult' = OkCoords(latitude, longitude)
    /\ opc' = "geoclue_returned"
    /\ log' = Append(log, "geoclue_return")
    /\ UNCHANGED << requested, polls, pollClock, locationPath, latitude,
                    longitude, clientStarted, hvars, finalResult >>
    /\ UNCHANGED << bvars, kvars, cvars, exitStatus >>

\* a handler that never shows the remediation message
NeverShowsRemediation(e) == FALSE

\* line 26: e.code == 77
ShowsRemediation(e) == e.code = PermissionDeniedCode

\* the lines get_location writes to stderr before falling back (lines 26-29)
RemediationLines(e) ==
    IF ShowsRemediation(e) THEN << "remediation", "falling_back" >> ELSE << >>

\* a fallback taken only for the permission error
FallsBackOnlyPermission(req, e) == e.code = PermissionDeniedCode

\* a fallback that lets the first provider's timeout through
FallsBackUnlessTimeout(req, e) == e.name # "timeout"

\* lines 24-31: every error of try_geoclue falls back to try_ip_location,
\* whatever provider was requested
FallsBack(req, e) == TRUE

\* lines 22-31: the match on try_geoclue's result; on Err the messages are
\* written and try_ip_location is called, which sends its GET
MatchFirst ==
    /\ opc = "geoclue_returned"
    /\ IF firstResult.kind = "Ok"
         THEN /\ finalResult' = firstResult
              /\ opc' = "done"
              /\ UNCHANGED << log, ipCalls, roundTrips >>
         ELSE IF FallsBack(requested, firstResult)
           THEN /\ log' = log \o RemediationLines(firstResult) \o << "ip_call" >>
                /\ ipCalls' = ipCalls + 1
                /\ roundTrips' = roundTrips + 1
                /\ opc' = "ip_send"
                /\ UNCHANGED finalResult
           ELSE /\ finalResult' = firstResult
                /\ opc' = "done"
                /\ UNCHANGED << log, ipCalls, roundTrips >>
    /\ UNCHANGED << requested, gvars, httpReply, httpBody, ipResult >>
    /\ UNCHANGED << bvars, kvars, cvars, exitStatus >>

\* JSON values and response bodies
JsonValue(t, v) == [t |-> t, v |-> v]
JsonNull == JsonValue("null", 0)
JsonValues == { JsonNull, JsonValue("string", 0), JsonValue("bool", 0),
                JsonValue("number", 37), JsonValue("number", -122) }
Members == JsonValues \cup { JsonValue("missing", 0) }
Body(json, object, lat, lon) ==
    [json |-> json, object |-> object, lat |-> lat, lon |-> lon]
Bodies ==
    { Body(FALSE, FALSE, JsonValue("missing", 0), JsonValue("missing", 0)),
      Body(TRUE, FALSE, JsonValue("missing", 0), JsonValue("missing", 0)) }
    \cup { Body(TRUE, TRUE, lat, lon) : lat \in Members, lon \in Members }

\* serde_json's Value index: Null for a missing key or a value that is no object
Index(body, key) ==
    IF ~body.object THEN JsonNull
    ELSE LET m == IF key = "lat" THEN body.lat ELSE body.lon
         IN  IF m.t = "missing" THEN JsonNull ELSE m

\* an as_f64 that reads anything that is no number as zero
as_f64_or_zero(v) == IF v.t = "number" THEN Some(v.v) ELSE Some(0)

\* Value::as_f64: Some for a JSON number, None for anything else
as_f64(v) == IF v.t = "number" THEN Some(v.v) ELSE None

\* lines 131-138: parse the body, take lat and lon
ParseBody(body) ==
    IF ~body.json THEN network
    ELSE LET lat == as_f64(Index(body, "lat"))
             lon == as_f64(Index(body, "lon"))
         IN  IF ~lat.some THEN network
             ELSE IF ~lon.some THEN network
             ELSE OkCoords(lat.value, lon.value)

\* lines 125-130: send().await ends, with the response head or an error
IpSend ==
    /\ opc = "ip_send"
    /\ \E reply \in Replies :
         /\ httpReply' = reply
         /\ IF reply = "ok"
              THEN /\ opc' = "ip_body"
                   /\ UNCHANGED ipResult
              ELSE /\ ipResult' = network
                   /\ opc' = "ip_returned"
    /\ UNCHANGED << requested, gvars, ipCalls, roundTrips, httpBody, finalResult, log >>
    /\ UNCHANGED << bvars, kvars, cvars, exitStatus >>

\* lines 131-138: json().await ends with the body; lat and lon are read
IpBody ==
    /\ opc = "ip_body"
    /\ \E body \in Bodies :
         /\ httpBody' = body
         /\ ipResult' = ParseBody(body)
    /\ opc' = "ip_returned"
    /\ UNCHANGED << requested, gvars, ipCalls, roundTrips, httpReply, finalResult, log >>
    /\ UNCHANGED << bvars, kvars, cvars, exitStatus >>

\* line 127: the request's 5 second timeout fires, during send or body
IpTimeout ==
    /\ opc \in {"ip_send", "ip_body"}
    /\ httpReply' = "timeout"
    /\ ipResult' = network
    /\ opc' = "ip_returned"
    /\ UNCHANGED << requested, gvars, ipCalls, roundTrips, httpBody, finalResult, log >>
    /\ UNCHANGED << bvars, kvars, cvars, exitStatus >>

\* line 30: try_ip_location's result is get_location's result
GetLocationReturn ==
    /\ opc = "ip_returned"
    /\ finalResult' = ipResult
    /\ log' = Append(log, "ip_return")
    /\ opc' = "done"
    /\ UNCHANGED << requested, gvars, hvars >>
    /\ UNCHANGED << bvars, kvars, cvars, exitStatus >>

\* main.rs lines 9-16: Ok prints the pair and main returns (status 0); Err
\* prints the message and exits with the error's code
ExitStatus(result) == IF result.kind = "Ok" THEN 0 ELSE result.code

\* lines 8-18: main, after get_location has returned
MainExit ==
    /\ opc = "done"
    /\ exitStatus' = ExitStatus(finalResult)
    /\ opc' = "exited"
    /\ UNCHANGED << requested, gvars, hvars, finalResult, log >>
    /\ UNCHANGED << bvars, kvars, cvars >>

\* one run of the program; --provider is parsed (args.rs) but never read
OrchInit ==
    /\ BridgeIdle
    /\ servicesEnabled = TRUE
    /\ authStatus = 0
    /\ ClassIdle
    /\ OrchIdle
    /\ requested \in Provider

OrchNext ==
    \/ GetLocation
    \/ Connect
    \/ NewManagerProxy
    \/ GetClient
    \/ BuildClient
    \/ SetDesktopId
    \/ SetAccuracyLevel
    \/ StartClient
    \/ PollReply
    \/ PollDelay
    \/ PollSleep
    \/ PollTimeout
    \/ BuildLocationProxy
    \/ ReadLatitude
    \/ ReadLongitude
    \/ StopClient
    \/ MatchFirst
    \/ IpSend
    \/ IpBody
    \/ IpTimeout
    \/ GetLocationReturn
    \/ MainExit

OrchSpec == OrchInit /\ [][OrchNext]_vars

\* The scheduler runs a task that is ready and timers fire: the program's own
\* steps and its timeouts are weakly fair. Nothing makes a D-Bus peer or an
\* HTTP server answer, so the steps that wait for one carry no fairness.
OrchFairness ==
    /\ WF_vars(GetLocation)
    /\ WF_vars(PollDelay)
    /\ WF_vars(PollSleep)
    /\ WF_vars(PollTimeout)
    /\ WF_vars(MatchFirst)
    /\ WF_vars(IpTimeout)
    /\ WF_vars(GetLocationReturn)
    /\ WF_vars(MainExit)

OrchLiveSpec == OrchInit /\ [][OrchNext]_vars /\ OrchFairness

----------------------------------------------------------------------------
(* Claims about the bridge, checked under Spec *)

SendIndices == 1..Len(sendLog)
TookIndices == {i \in SendIndices : sendLog[i].took}
AfterWait == pc \in {"resolved", "returning", "done"} /\ starts > 0
Returned == pc \in {"returning", "done"} /\ starts > 0

\* C1: exactly-once delivery on the pending-request slot. Over every
\* interleaving of update and fail on one pending request, at most one send
\* finds the sender (every later one is a no-op), the caller takes at most one
\* value out of the channel, and a value written while the caller was still
\* waiting is the one result the caller observes and returns: never both
\* outcomes, never neither.
C1_ExactlyOnce ==
    /\ writes <= 1
    /\ Cardinality(TookIndices) = writes
    /\ \A i \in TookIndices : \A j \in SendIndices : j > i => ~sendLog[j].took
    /\ delivered <= 1
    /\ pc # "waiting" => chan # "value"
    /\ \A i \in SendIndices :
         (sendLog[i].took /\ sendLog[i].waiting) =>
           /\ pc = "waiting" => (chan = "value" /\ chanVal = sendLog[i].value)
           /\ AfterWait => (waitResult = sendLog[i].value /\ delivered = 1)
           /\ Returned =>
                outcome.kind = (IF sendLog[i].value.kind = "fix" THEN "Ok" ELSE "Failed")

\* C1 witness: a success and a failure callback both sent before the deadline,
\* and the call has returned with one result taken.
C1_Witness ==
    /\ pc = "done"
    /\ Len(sendLog) = 2
    /\ {sendLog[1].kind, sendLog[2].kind} = {"update", "fail"}
    /\ \A i \in SendIndices : sendLog[i].waiting /\ ~sendLog[i].late
    /\ delivered = 1

NoDeliveryWhileWaiting ==
    \A i \in SendIndices : ~(sendLog[i].took /\ sendLog[i].waiting)

C3_ServiceDisabled ==
    (pc = "done" /\ ~servicesEnabled) =>
        /\ outcome.kind = "ServiceDisabled"
        /\ manager = "none"
        /\ delegate = "none"
        /\ ~delegateSet
        /\ registrations = 0
        /\ starts = 0

DeniedOrRestricted(status) == status \in {StatusRestricted, StatusDenied}
AllocationFailures ==
    { ErrFailed("Failed to create CLLocationManager"),
      ErrFailed("Failed to allocate delegate") }
RefusedWithoutSideEffects ==
    /\ outcome = ErrAuthorizationDenied
    /\ manager = "none"
    /\ delegate = "none"
    /\ ~delegateSet
    /\ ~authRequested
    /\ starts = 0

\* C4 as stated: with the service enabled, a denied or restricted status
\* returns AuthorizationDenied with no manager, no delegate, no permission
\* request and no stream; every other status goes on to start the stream.
C4_Original ==
    (pc = "done" /\ servicesEnabled) =>
        IF DeniedOrRestricted(authStatus)
          THEN RefusedWithoutSideEffects
          ELSE starts = 1

\* C4 amended: with the service enabled, a denied or restricted status
\* returns AuthorizationDenied with no manager, no delegate, no permission
\* request and no stream; every other status passes the gate and starts the
\* stream exactly once, unless creating the manager or the delegate fails, in
\* which case the request returns Failed without starting it.
C4_AuthorizationGate ==
    /\ (pc = "done" /\ servicesEnabled) =>
         IF DeniedOrRestricted(authStatus)
           THEN RefusedWithoutSideEffects
           ELSE \/ starts = 1 /\ authRequested /\ outcome \notin AllocationFailures
                \/ starts = 0 /\ outcome \in AllocationFailures
    /\ (servicesEnabled /\ DeniedOrRestricted(authStatus)) =>
         pc \in {"idle", "check_services", "check_auth", "done"}
    /\ outcome = ErrAuthorizationDenied =>
         (servicesEnabled /\ DeniedOrRestricted(authStatus))

\* C4 witness: a restricted status was refused.
C4_Witness ==
    /\ pc = "done"
    /\ servicesEnabled
    /\ authStatus = StatusRestricted
    /\ outcome = ErrAuthorizationDenied

\* C10: accuracy normalization. For every fix the bridge delivers, the
\* returned accuracy is present and equal to the reported horizontal accuracy
\* exactly when the reported value is non-negative (zero included), and
\* absent when it is negative.
C10_AccuracyNormalized ==
    (Returned /\ waitResult.kind = "fix") =>
        LET reported == waitResult.fix.accuracy
        IN  /\ NonNegative(reported) => outcome.accuracy_m = Some(reported)
            /\ outcome.accuracy_m.some => NonNegative(reported)
            /\ Negative(reported) => outcome.accuracy_m = None

----------------------------------------------------------------------------
(* Claims about delegate_class, checked under ClassSpec *)

ReturnedIdentities == UNION { {tret[t][i] : i \in 1..Len(tret[t])} : t \in Threads }

\* C8: idempotent delegate-class registration. After any number of calls of
\* delegate_class, sequential or interleaved, GeoLocCLDelegate has been
\* declared and registered at most once, no call has panicked, and every call
\* has returned the same, registered, class identity.
C8_RegisteredOnce ==
    /\ declared <= 1
    /\ registrations <= 1
    /\ \A t \in Threads : tpc[t] # "panicked"
    /\ Cardinality(ReturnedIdentities) <= 1
    /\ \A id \in ReturnedIdentities : id = CLASS /\ id # 0 /\ registrations = 1

\* C8 witness: every thread has made all its calls, two of them having
\* raced into the slow path.
C8_Witness ==
    /\ \A t \in Threads : Len(tret[t]) = CallsPerThread /\ tpc[t] = "idle"
    /\ registrations = 1

----------------------------------------------------------------------------
(* Claims about the orchestrator, checked under OrchSpec and OrchLiveSpec *)

\* where an entry first stands in the log, 0 when it is not there
Position(entry) ==
    IF \E i \in 1..Len(log) : log[i] = entry
      THEN CHOOSE i \in 1..Len(log) :
             log[i] = entry /\ \A j \in 1..(i - 1) : log[j] # entry
      ELSE 0
Occurrences(entry) == Cardinality({i \in 1..Len(log) : log[i] = entry})

ExplicitNative == {"Corelocation", "Geoclue"}

\* C5: orchestrator no-fallback. When the requested provider is an explicit
\* native selection and that provider returns Timeout, the orchestrator
\* returns Timeout directly and the IP provider is never invoked.
C5_NoFallback ==
    (requested \in ExplicitNative /\ firstResult = timeout_error) =>
        /\ ipCalls = 0
        /\ opc = "done" => finalResult = timeout_error

\* C6: orchestrator fallback. When the request is Automatic and the first
\* provider fails with the permission-denied error, the remediation message
\* is emitted strictly before the fallback provider is invoked, the fallback
\* provider is invoked exactly once, and the final result is whatever the
\* fallback provider returned.
C6_FallbackAfterRemediation ==
    (requested = "Auto" /\ firstResult = permission_denied) =>
        /\ ipCalls <= 1
        /\ Occurrences("ip_call") = ipCalls
        /\ ipCalls = 1 =>
             /\ Occurrences("remediation") = 1
             /\ Position("remediation") < Position("ip_call")
        /\ opc = "done" =>
             /\ ipCalls = 1
             /\ ipResult # NoValue
             /\ finalResult = ipResult

\* C6 witness: permission was denied under Auto, the fallback returned a fix
\* and that fix is the final result.
C6_Witness ==
    /\ opc = "done"
    /\ requested = "Auto"
    /\ firstResult = permission_denied
    /\ ipResult = OkCoords(37, -122)
    /\ finalResult = ipResult

\* C7: every invocation ends with one final outcome, a fix or an error, and
\* never blocks indefinitely: with the scheduler and the timers running,
\* get_location eventually returns.
C7_Terminates == <>(opc = "done" /\ finalResult # NoValue)

NumericCoordinates ==
    /\ httpReply = "ok"
    /\ httpBody # NoValue
    /\ httpBody.json
    /\ httpBody.object
    /\ httpBody.lat.t = "number"
    /\ httpBody.lon.t = "number"

\* C9: no partial fixes from the fallback provider. try_ip_location returns
\* Ok only when the round-trip succeeded, the body parsed as JSON and both lat
\* and lon are numeric, and then with exactly those two numbers; when the
\* round-trip errors or times out, or either coordinate is missing or not a
\* number, it returns the Network error; and it sends exactly one request.
C9_NoPartialFix ==
    /\ roundTrips = ipCalls
    /\ roundTrips <= 1
    /\ ipResult # NoValue =>
         /\ roundTrips = 1
         /\ IF NumericCoordinates
              THEN ipResult = OkCoords(httpBody.lat.v, httpBody.lon.v)
              ELSE ipResult = network

\* C9 witness: the body carried a numeric lat but no numeric lon, and the
\* lookup failed with the Network error.
C9_Witness ==
    /\ opc = "done"
    /\ httpReply = "ok"
    /\ httpBody # NoValue
    /\ httpBody.object
    /\ httpBody.lat.t = "number"
    /\ httpBody.lon.t = "string"
    /\ ipResult = network
    /\ roundTrips = 1

----------------------------------------------------------------------------
(* Timeout coercion *)

\* the deadline a request with timeout argument t must wait for
ExpectedDeadline(t) == IF t = 0 THEN DefaultTimeoutSecs ELSE t

\* C11: timeout coercion. get_current_location never rejects a timeout
\* value: a call that returns before the wait began failed for the services
\* switch, the authorization status or an allocation, never for the
\* timeout. A zero timeout is replaced by the 5 second default before the
\* wait begins, every non-zero timeout is kept unchanged, and that value is
\* the deadline of the wait: the timer never runs past it and the wait
\* resolves as elapsed only when exactly that many seconds have run off.
C11_TimeoutCoercion ==
    /\ pc # "idle" => timeout = ExpectedDeadline(timeoutArg)
    /\ pc = "waiting" => elapsed <= ExpectedDeadline(timeoutArg)
    /\ waitResult.kind = "elapsed" => elapsed = ExpectedDeadline(timeoutArg)
    /\ (pc = "done" /\ starts = 0) =>
         \/ ~servicesEnabled
         \/ DeniedOrRestricted(authStatus)
         \/ outcome \in AllocationFailures

\* C11 witness: a call with a zero timeout waited the 5 second default and
\* returned Timeout, and (in other runs) a non-zero timeout ran out as given.
C11_Witness ==
    /\ pc = "done"
    /\ timeoutArg = 0
    /\ outcome = ErrTimeout
    /\ elapsed = DefaultTimeoutSecs

----------------------------------------------------------------------------
(* The first callback *)

\* every callback the native subsystem invoked has run to its end, and none
\* of them went through a DelegateState that dealloc had freed
CallbacksDoneOnLiveDelegate ==
    /\ callbacks >= 1
    /\ cbPc = "idle"
    /\ ~useAfterFree

\* C12 as stated: the first callback, whatever its payload, writes a result
\* into the slot and sends the stop.
C12_Original ==
    (CallbacksDoneOnLiveDelegate /\ callbacks = 1) =>
        /\ writes = 1
        /\ callbackStops = 1

\* C12: the first callback that carries a result is authoritative. Every
\* fail callback, and every update callback whose locations array is not
\* empty, sends a result to the slot and then sends stopUpdatingLocation;
\* the first of these sends takes the sender and writes, the later ones find
\* the slot empty. An update callback whose array is empty returns without
\* writing and without sending the stop, so the slot is left for a later
\* callback.
C12_FirstResultAuthoritative ==
    CallbacksDoneOnLiveDelegate =>
        /\ Len(sendLog) = callbacks - emptyUpdates
        /\ callbackStops = callbacks - emptyUpdates
        /\ writes = (IF callbacks > emptyUpdates THEN 1 ELSE 0)
        /\ sendLog # << >> => sendLog[1].took
        /\ \A i \in 2..Len(sendLog) : ~sendLog[i].took
        /\ (cbKind = "fail" /\ callbacks = 1) => emptyUpdates = 0

\* C12 witness: the first callback was an update with an empty array and
\* left the slot alone; the second one carried a result, wrote it and sent
\* the stop.
C12_Witness ==
    /\ CallbacksDoneOnLiveDelegate
    /\ callbacks = 2
    /\ emptyUpdates = 1
    /\ writes = 1
    /\ callbackStops = 1
    /\ sendLog[1].took

----------------------------------------------------------------------------
(* The deadline and a late callback *)

\* sends that took the sender after the wait had ended
LateTookIndices == {i \in TookIndices : ~sendLog[i].waiting}

\* what the caller has observed once it returned: one outcome, the result of
\* the send that wrote while it waited or else Timeout; after Timeout every
\* write is a late one and is dropped
OneOutcome ==
    /\ delivered <= 1
    /\ Returned =>
         /\ outcome # NoValue
         /\ \/ outcome = ErrTimeout
            \/ \E i \in TookIndices :
                 /\ sendLog[i].waiting
                 /\ outcome = MatchResult(sendLog[i].value)
    /\ (Returned /\ outcome = ErrTimeout) =>
         /\ waitResult.kind = "elapsed"
         /\ delivered = 0
         /\ TookIndices = LateTookIndices
    /\ LateTookIndices # {} =>
         /\ ~rxAlive
         /\ chan # "value"
         /\ delivered = 0

\* C13: deadline/callback race. When a callback fires together with or after
\* the expiry of the deadline the caller observes exactly one outcome, the
\* callback's result or Timeout; once get_current_location has returned
\* Timeout the write of a late callback is dropped (the receiver is gone, the
\* value reaches no channel, nothing is delivered), and an outcome, once
\* returned, never changes.
C13_DeadlineRace ==
    /\ []OneOutcome
    /\ [][(outcome # NoValue => outcome' = outcome) /\ delivered' >= delivered]_vars

\* C13 witness: the call returned Timeout, and a callback that fired after
\* the deadline took the sender and wrote into the void.
C13_Witness ==
    /\ pc = "done"
    /\ outcome = ErrTimeout
    /\ \E i \in LateTookIndices : sendLog[i].late
    /\ writes = 1
    /\ delivered = 0

----------------------------------------------------------------------------
(* A late callback and dealloc *)

\* the boxed DelegateState has been released at most once
ReleasedOnce == storage = "freed" => (ivar = "null" /\ delegate = "released")

\* C14: callback versus deallocation race. A late update or fail and the
\* delegate's dealloc interleave in any order without the callback using the
\* DelegateState after dealloc has released it: a callback that got the state
\* from take_state holds live storage until it has sent, no send goes
\* through freed storage, and the storage is released exactly once.
C14_NoUseAfterRelease ==
    /\ (cbPc = "entered" /\ cbState = "ptr") => storage = "live"
    /\ ~useAfterFree
    /\ staleWrites = 0
    /\ ReleasedOnce

----------------------------------------------------------------------------
(* Unwinding of native resources *)

\* C15: deterministic unwinding. On every return path of
\* get_current_location (success, delivered failure, timeout, the early
\* failures) each native object allocated during the call has been released
\* by the time the call returns: no manager, delegate or DelegateState is
\* still alive, and the delegate's ivar no longer points at one.
C15_Unwound ==
    pc = "done" =>
        /\ manager \in {"none", "released"}
        /\ delegate \in {"none", "released"}
        /\ storage \in {"none", "freed"}
        /\ ivar = "null"

----------------------------------------------------------------------------
(* The fallback rule of get_location *)

\* get_location has matched on the first provider's result
FirstMatched == firstResult # NoValue /\ opc # "geoclue_returned"
GetLocationReturned == opc \in {"done", "exited"}

\* C16: the single fallback rule of get_location. try_ip_location is invoked
\* if and only if try_geoclue returned an error; it is invoked at most once
\* and only after try_geoclue has returned; its result is the final result,
\* with no retry and no further fallback; and the remediation and "falling
\* back" lines are written only when the first error is the
\* permission-denied error (code 77).
C16_SingleFallback ==
    /\ ipCalls <= 1
    /\ Occurrences("ip_call") = ipCalls
    /\ Occurrences("geoclue_call") <= 1
    /\ ipCalls = 1 =>
         /\ firstResult # NoValue
         /\ firstResult.kind = "Err"
         /\ Position("geoclue_return") > 0
         /\ Position("geoclue_return") < Position("ip_call")
    /\ FirstMatched => (ipCalls = 1 <=> firstResult.kind = "Err")
    /\ GetLocationReturned =>
         /\ finalResult = (IF firstResult.kind = "Ok" THEN firstResult ELSE ipResult)
         /\ Occurrences("ip_return") = ipCalls
         /\ roundTrips = ipCalls
    /\ Occurrences("remediation") <= 1
    /\ Occurrences("falling_back") = Occurrences("remediation")
    /\ Occurrences("remediation") = 1 =>
         /\ firstResult # NoValue
         /\ firstResult.kind = "Err"
         /\ firstResult.code = PermissionDeniedCode
         /\ Position("geoclue_return") < Position("remediation")

\* C16 witness: the first provider failed with the service-unavailable error,
\* no message was written, the IP provider was tried once and its Network
\* error is the final result.
C16_Witness ==
    /\ opc = "done"
    /\ firstResult = service_unavailable
    /\ ipCalls = 1
    /\ Occurrences("remediation") = 0
    /\ Occurrences("falling_back") = 0
    /\ ipResult = network
    /\ finalResult = network

----------------------------------------------------------------------------
(* Instructions to a released manager *)

\* C17: no instruction reaches the native manager after the bridge has
\* released it. In every interleaving the stopUpdatingLocation that update
\* or fail sends after writing the slot is sent while the manager held by
\* get_current_location is still alive: a callback that has sent its result
\* and not yet its stop finds the manager alive, and no stop on record went
\* to a released manager.
C17_StopWhileManagerAlive ==
    /\ cbPc = "stop" => manager = "alive"
    /\ \A i \in 1..Len(stopLog) : stopLog[i] # "callback_after_release"

----------------------------------------------------------------------------
(* The closed channel *)

\* how a wait on the receiver can end
WaitEndings == {"fix", "Failed", "elapsed"}

\* C18: the "CoreLocation channel closed" outcome is unreachable while a
\* request is awaiting. The delegate, and the DelegateState holding the
\* sender, stay alive for as long as the caller waits, so the channel is
\* never closed under the waiting receiver; dealloc drops an unused sender
\* only once the wait is over; and the wait ends only with a delivered fix,
\* a delivered failure or the deadline, never as canceled.
C18_NeverCanceled ==
    /\ pc = "waiting" =>
         /\ delegate = "alive"
         /\ storage = "live"
         /\ ivar = "ptr"
         /\ chan \in {"empty", "value"}
         /\ (slot = "None" => chan = "value")
    /\ storage = "freed" => pc = "done"
    /\ waitResult # NoValue => waitResult.kind \in WaitEndings
    /\ outcome # ErrFailed("CoreLocation channel closed")

\* C18 witness: the deadline ended the wait with the sender still in the
\* slot, and dealloc dropped it unsent after the call's return.
C18_Witness ==
    /\ pc = "done"
    /\ waitResult.kind = "elapsed"
    /\ outcome = ErrTimeout
    /\ storage = "freed"
    /\ slot = "Some"
    /\ writes = 0

----------------------------------------------------------------------------
(* client.stop in try_geoclue *)

\* client.stop() has been called: the call is made as soon as the longitude
\* is read (position "stop" is the wait for its answer)
StopIssued == opc = "stop" \/ clientStops > 0
GeoclueReturned == firstResult # NoValue
PastPolling == opc \in {"build_location", "latitude", "longitude", "stop"}

\* C19: in try_geoclue client.stop is issued in exactly the runs that return
\* Ok. It is issued at most once and only after both latitude and longitude
\* have been read; a run that returned Ok has issued it; and a run in which
\* client.start succeeded and a later step failed (the polling loop used up
\* its 10 reads or the 5 second timeout, the location proxy could not be
\* built, a coordinate could not be read) returned an error without issuing
\* stop. Coordinates are never read from an empty location path.
C19_StopOnlyOnOk ==
    /\ clientStops <= 1
    /\ StopIssued =>
         /\ clientStarted
         /\ latitude \in GeoLatitudes
         /\ longitude \in GeoLongitudes
    /\ GeoclueReturned =>
         /\ opc # "stop"
         /\ firstResult.kind = "Ok" =>
              (clientStops = 1 /\ firstResult = OkCoords(latitude, longitude))
         /\ firstResult.kind = "Err" => clientStops = 0
    /\ (GeoclueReturned /\ clientStarted /\ firstResult.kind = "Err") =>
         /\ ~StopIssued
         /\ firstResult \in {timeout_error, service_unavailable}
         /\ locationPath = "none" => firstResult = timeout_error
                                       /\ latitude = 0 /\ longitude = 0
    /\ PastPolling => locationPath \in {"location", "root"}
    /\ (latitude # 0 \/ longitude # 0) => locationPath \in {"location", "root"}

\* C19 witness: client.start succeeded, all 10 reads of the polling loop
\* went by without a usable path, and try_geoclue returned the timeout error
\* with no stop issued and no coordinate read.
C19_Witness ==
    /\ clientStarted
    /\ polls = PollAttempts
    /\ firstResult = timeout_error
    /\ locationPath = "none"
    /\ clientStops = 0
    /\ latitude = 0

----------------------------------------------------------------------------
(* The error the process ends with *)

FirstProviderErrors == {permission_denied, service_unavailable, timeout_error}

\* C20: the error surfaced by the process is always the fallback's error.
\* Whenever get_location returns Err it is the Network error that
\* try_ip_location produced; the first provider's permission-denied (77),
\* service-unavailable (70) and timeout errors are never the final result;
\* and the process ends with status 0 (a fix was printed) or 1.
C20_FallbackErrorSurfaces ==
    /\ finalResult \notin FirstProviderErrors
    /\ (GetLocationReturned /\ finalResult.kind = "Err") =>
         /\ finalResult = network
         /\ ipCalls = 1
         /\ ipResult = network
         /\ firstResult.kind = "Err"
    /\ opc # "exited" => exitStatus = "running"
    /\ opc = "exited" =>
         /\ exitStatus \in {0, NetworkCode}
         /\ exitStatus \notin {PermissionDeniedCode, ServiceUnavailableCode}
         /\ exitStatus = 0 <=> finalResult.kind = "Ok"

\* C20 witness: permission was denied by the first provider, the fallback
\* failed too, and the process ended with the Network error's status.
C20_Witness ==
    /\ opc = "exited"
    /\ firstResult = permission_denied
    /\ finalResult = network
    /\ exitStatus = NetworkCode

====
